---- MODULE Spec2Model ----
(***************************************************************************)
(* Model of dephell's setup.py converter (dephell/converters/setuppy.py)   *)
(* and of its installer driver (dephell/package_manager.py).               *)
(*                                                                         *)
(* Strings are sequences of one-character strings, so that str.strip,      *)
(* ' '.join and iteration over a str are computed as Python computes       *)
(* them.  Requirement and entry-point lines are sequences of tokens.       *)
(* A keyword-argument dict is a function from the supplied keys to tagged  *)
(* values: Str(s), List(l) or Dict(d) (d an ordered sequence of pairs).    *)
(***************************************************************************)
EXTENDS Integers, Sequences, FiniteSets, TLC

VARIABLES
    \* ---- one load(path) call
    pc,         \* where the load call is
    source,     \* the build script at path: what it is and what running it does
    cwd0,       \* the process working directory when load was called
    cwd,        \* the process working directory
    saved,      \* the directory the active chdir() block restores on exit
    dist,       \* globe.get('_dist'): whether it was assigned, and the dict
    info,       \* the distribution object, or None
    root,       \* the RootDependency load returns
    log,        \* what was logged
    pending,    \* the exception propagating out of the current block, or ""
    exc,        \* the exception that reached load's caller, or ""
    thrown,     \* every exception a step raised, in order, with its step
    execCwd,    \* the working directory each execution of the script ran in
    fallback,   \* whether run_setup was attempted
    extracted,  \* what _execute returned: "" (not yet), "None" or "Distribution"
    \* ---- load, dumps, load again
    rt_pc,      \* where the round trip is
    setup_kwargs, \* the keyword arguments of the first script's setup call
    loaded,     \* the RootDependency of the first load
    content,    \* the keyword arguments of the setup call dumps emitted
    reloaded,   \* the RootDependency of the load of the emitted script
    \* ---- one install(reqs) call and the run() it makes
    pm_pc,      \* where the install call is
    install_reqs, \* the requirements handed to install
    code,       \* the exit code the installer ends with
    outN,       \* how many chunks the installer writes to its stdout
    errN,       \* how many chunks the installer writes to its stderr
    tmpdir,     \* whether the temporary directory exists
    reqfile,    \* the requirement file: whether it exists, and its lines
    command_pip, \* the installer's command line, once launched
    process_pip, \* the installer child process
    process_grep, \* the filter child process
    stdout_pipe, \* chunks in the pipe from the installer to the filter
    stderr_pipe, \* chunks in the pipe from the installer's stderr to the driver
    stderr,     \* the text run() read from the installer's stderr
    pm_log,     \* what run() logged
    pm_pending, \* the exception propagating out of the current block, or ""
    fault,      \* the failure the environment injected into this call, or ""
    run_result, \* how run() ended: "", or returned / raised with a value
    result,     \* how install() ended
    \* ---- two load calls in one process
    t_pc,       \* where each thread's load call is
    t_cwd,      \* the process working directory, shared by the threads
    t_saved,    \* per thread, the directory its active chdir() block restores
    t_info,     \* per thread, whether _execute returned a distribution
    t_execCwd,  \* per thread, the working directory each execution ran in
    overlapped  \* whether a thread took a step while the other's call was open

loadVars ==
    <<pc, source, cwd0, cwd, saved, dist, info, root, log, pending, exc, thrown,
      execCwd, fallback, extracted>>

rtVars == <<rt_pc, setup_kwargs, loaded, content, reloaded>>

pmVars ==
    <<pm_pc, install_reqs, code, outN, errN, tmpdir, reqfile, command_pip, process_pip,
      process_grep, stdout_pipe, stderr_pipe, stderr, pm_log, pm_pending, fault,
      run_result, result>>

threadVars == <<t_pc, t_cwd, t_saved, t_info, t_execCwd, overlapped>>

vars == <<loadVars, rtVars, pmVars, threadVars>>

\* what the steps of each part of the model leave alone
outsideLoad == <<rtVars, pmVars, threadVars>>
outsideRoundTrip == <<loadVars, pmVars, threadVars>>
outsidePM == <<loadVars, rtVars, threadVars>>
outsideThreads == <<loadVars, rtVars, pmVars>>

\* ------------------------------------------------------------------ bounds
\* longest keyword (in characters) a generated script supplies
MaxKeywordLen == 2
\* capacity of an operating-system pipe, in chunks
PipeCap == 2
\* most chunks the installer writes to its stdout / to its stderr
MaxOut == 3
MaxErr == 3
\* largest installer exit code tried
MaxCode == 2
\* most requirements handed to install()
MaxReqs == 2

\* ------------------------------------------------------------- Python values
Str(s) == [t |-> "str", v |-> s]
List(l) == [t |-> "list", v |-> l]
Dict(d) == [t |-> "dict", v |-> d]

UNKNOWN == <<"U", "N", "K", "N", "O", "W", "N">>

RECURSIVE lstrip(_)
\* str.lstrip(): drop leading whitespace
lstrip(s) == IF s # <<>> /\ Head(s) = " " THEN lstrip(Tail(s)) ELSE s

RECURSIVE rstrip(_)
\* str.rstrip(): drop trailing whitespace
rstrip(s) ==
    IF s # <<>> /\ s[Len(s)] = " " THEN rstrip(SubSeq(s, 1, Len(s) - 1)) ELSE s

\* str.strip()
strip(s) == rstrip(lstrip(s))

RECURSIVE join(_, _)
\* sep.join(items) for a sequence of strings
join(sep, items) ==
    IF items = <<>> THEN <<>>
    ELSE IF Len(items) = 1 THEN items[1]
    ELSE items[1] \o sep \o join(sep, Tail(items))

\* iter(value): a str yields its characters, a list or tuple its elements
Iterate(value) ==
    IF value.t = "str" THEN [i \in 1..Len(value.v) |-> <<value.v[i]>>]
    ELSE value.v

\* getattr(obj, name, None) is falsy: the attribute is absent, None or empty
Falsy(obj, name) == name \notin DOMAIN obj \/ obj[name].v = <<>>

\* ------------------------------------------------------------- Distribution
\* keys that setuptools keeps on the distribution's metadata sub-object
MetadataKeys ==
    {"name", "version", "description", "license", "author", "author_email",
     "maintainer", "maintainer_email"}

\* Distribution(dist): the distribution-msg object, exposing .metadata and
\* top-level attributes named after the setup() keywords
Distribution(attrs) ==
    [metadata |-> [k \in DOMAIN attrs \cap MetadataKeys |-> attrs[k]],
     top |-> [k \in DOMAIN attrs \ MetadataKeys |-> attrs[k]]]

\* ---------------------------------------------------------- field helpers
\* SetupPyConverter._get
_get(msg, name) ==
    LET obj == IF ~Falsy(msg.metadata, name) THEN msg.metadata ELSE msg.top
    IN  IF Falsy(obj, name) THEN <<>>
        ELSE IF obj[name].v = UNKNOWN THEN <<>>
        ELSE strip(obj[name].v)

\* SetupPyConverter._get_list
_get_list(msg, name) ==
    IF Falsy(msg.top, name) THEN <<>>
    ELSE SelectSeq(Iterate(msg.top[name]),
                   LAMBDA value : value # UNKNOWN /\ strip(value) # <<>>)

\* ------------------------------------------------ collaborators' parsers
PkgNames == {"flask", "pytest", "requests"}
VersionTokens == {">=1.0", ">=2.0"}
ExtraNames == {"socks"}
MarkerAtoms == {"py3", "win"}
ExtraOrder == <<"socks">>
MarkerOrder == <<"py3", "win">>
EnvOrder == <<"main", "dev", "test", "docs">>

\* the members of a set, in the order a fixed listing gives them
SeqOf(set, order) == SelectSeq(order, LAMBDA x : x \in set)

\* packaging.requirements.Requirement(line): name, [extras], version, ; marker
Requirement(line) ==
    LET n == Len(line)
        hasExtras == n >= 2 /\ line[2] = "["
        closing == {j \in 3..n : line[j] = "]"}
        close == IF ~hasExtras THEN 1
                 ELSE IF closing = {} THEN 0
                 ELSE CHOOSE j \in closing : \A k \in closing : j <= k
        extras == {line[j] : j \in 3..(close - 1)} \ {","}
        p == close + 1
        hasVersion == p <= n /\ line[p] \in VersionTokens
        q == IF hasVersion THEN p + 1 ELSE p
        hasMarker == q <= n /\ line[q] = ";"
        marker == IF hasMarker THEN {line[j] : j \in (q + 1)..n} \ {"and"} ELSE {}
        valid == /\ n >= 1
                 /\ line[1] \in PkgNames
                 /\ hasExtras => (close > 0 /\ extras # {} /\ extras \subseteq ExtraNames)
                 /\ IF hasMarker THEN marker # {} /\ marker \subseteq MarkerAtoms
                    ELSE q = n + 1
    IN  IF valid
        THEN [ok |-> TRUE, name |-> line[1], extras |-> extras,
              version |-> IF hasVersion THEN line[p] ELSE "", marker |-> marker]
        ELSE [ok |-> FALSE, name |-> "", extras |-> {}, version |-> "", marker |-> {}]

\* DependencyMaker.from_requirement(source, req, marker): one dependency, in
\* the main environment unless the caller retags it
from_requirement(req, marker) ==
    [name |-> req.name, extras |-> req.extras, version |-> req.version,
     marker |-> req.marker \cup marker, envs |-> {"main"}]

\* BaseConverter._split_extra_and_marker: 'extra' or 'extra:marker'
_split_extra_and_marker(key) ==
    [extra |-> key[1], marker |-> IF Len(key) >= 3 THEN {key[3]} ELSE {}]

\* EntryPoint.parse(text, group) for a line 'name = module:object'
EntryPointParse(text, group) == [group |-> group, name |-> text[1], path |-> text[3]]

\* str(entrypoint)
EntryPointStr(ep) == <<ep.name, "=", ep.path>>

\* Requirement.main_envs: the named extras a dependency belongs to
main_envs(req) == req.envs \ {"main", "dev"}

\* ------------------------------------------------------------ list helpers
RECURSIVE Dedup(_)
\* the distinct elements of a sequence, in order of first appearance
Dedup(seq) ==
    IF seq = <<>> THEN <<>>
    ELSE <<Head(seq)>> \o SelectSeq(Dedup(Tail(seq)), LAMBDA x : x # Head(seq))

\* defaultdict(list) filled by appending v under k for each <<k, v>> in turn:
\* the keys in insertion order, each with the values appended under it
GroupBy(pairs) ==
    LET keys == Dedup([i \in 1..Len(pairs) |-> pairs[i][1]])
        under(k) == SelectSeq(pairs, LAMBDA kv : kv[1] = k)
    IN  [i \in 1..Len(keys) |->
            <<keys[i], [j \in 1..Len(under(keys[i])) |-> under(keys[i])[j][2]]>>]

RECURSIVE Concat(_)
\* the concatenation of a sequence of sequences
Concat(seqs) == IF seqs = <<>> THEN <<>> ELSE Head(seqs) \o Concat(Tail(seqs))

\* the function holding the given set of <<key, value>> pairs
FromPairs(S) == [k \in {kv[1] : kv \in S} |-> (CHOOSE kv \in S : kv[1] = k)[2]]

\* ------------------------------------------------------------------- load
\* load, lines 107-112: the author and the maintainer, when present
LoadAuthors(msg) ==
    LET one(name, mail) ==
            IF _get(msg, name) # <<>>
            THEN <<[name |-> _get(msg, name), mail |-> _get(msg, mail)]>>
            ELSE <<>>
    IN  one("author", "author_email") \o one("maintainer", "maintainer_email")

\* load, lines 115-119: every entry point of every group
LoadEntryPoints(msg) ==
    LET groups == IF Falsy(msg.top, "entry_points") THEN <<>>
                  ELSE msg.top["entry_points"].v
    IN  Concat([g \in 1..Len(groups) |->
            [i \in 1..Len(groups[g][2]) |->
                EntryPointParse(groups[g][2][i], groups[g][1])]])

\* load, lines 122-126: the install_requires lines
InstallLines(msg) == _get_list(msg, "install_requires")

\* load, lines 129-137: the extras_require items, as <<extra key, line>> pairs
ExtraLines(msg) ==
    LET items == IF "extras_require" \in DOMAIN msg.top
                 THEN msg.top["extras_require"].v ELSE <<>>
    IN  Concat([g \in 1..Len(items) |->
            [i \in 1..Len(items[g][2]) |-> <<items[g][1], items[g][2][i]>>]])

\* load, lines 130-131: the environments of an extra's dependencies
ExtraEnvs(extra) == IF extra = "dev" THEN {extra} ELSE {"main", extra}

\* load, lines 122-137: the dependencies attached to the root
LoadDeps(msg) ==
    LET lines == InstallLines(msg)
        extras == ExtraLines(msg)
    IN  [i \in 1..Len(lines) |-> from_requirement(Requirement(lines[i]), {})]
        \o [i \in 1..Len(extras) |->
                LET split == _split_extra_and_marker(extras[i][1])
                IN  [from_requirement(Requirement(extras[i][2]), split.marker)
                        EXCEPT !.envs = ExtraEnvs(split.extra)]]

\* load, lines 124 and 133: Requirement(req) raises on a malformed line
RequirementsValid(msg) ==
    /\ \A i \in 1..Len(InstallLines(msg)) : Requirement(InstallLines(msg)[i]).ok
    /\ \A i \in 1..Len(ExtraLines(msg)) : Requirement(ExtraLines(msg)[i][2]).ok

\* load, line 87: the version, defaulted
LoadVersion(msg) ==
    IF _get(msg, "version") # <<>> THEN _get(msg, "version") ELSE <<"0", ".", "0", ".", "0">>

\* load, lines 85-139: the RootDependency built from the distribution
LoadRoot(msg) ==
    [raw_name |-> _get(msg, "name"),
     version |-> LoadVersion(msg),
     description |-> _get(msg, "description"),
     license |-> _get(msg, "license"),
     keywords |-> _get_list(msg, "keywords"),
     classifiers |-> _get_list(msg, "classifiers"),
     platforms |-> _get_list(msg, "platforms"),
     authors |-> LoadAuthors(msg),
     entrypoints |-> LoadEntryPoints(msg),
     deps |-> LoadDeps(msg)]

\* ------------------------------------------------------------------ dumps
\* SetupPyConverter._format_req
_format_req(req) ==
    <<req.name>>
    \o (IF req.extras # {}
        THEN <<"[">> \o join(<<",">>, [i \in 1..Len(SeqOf(req.extras, ExtraOrder)) |->
                                        <<SeqOf(req.extras, ExtraOrder)[i]>>]) \o <<"]">>
        ELSE <<>>)
    \o (IF req.version # "" THEN <<req.version>> ELSE <<>>)
    \o (IF req.marker # {}
        THEN <<";">> \o join(<<"and">>, [i \in 1..Len(SeqOf(req.marker, MarkerOrder)) |->
                                          <<SeqOf(req.marker, MarkerOrder)[i]>>])
        ELSE <<>>)

\* dumps, lines 184-188: entry points grouped by group
DumpEntryPoints(project) ==
    GroupBy([i \in 1..Len(project.entrypoints) |->
        <<project.entrypoints[i].group, EntryPointStr(project.entrypoints[i])>>])

\* dumps, lines 198-199
DumpInstallRequires(reqs) ==
    LET plain == SelectSeq(reqs, LAMBDA req : main_envs(req) = {})
    IN  [i \in 1..Len(plain) |-> _format_req(plain[i])]

\* dumps, lines 201-208: each requirement under each of its extras
DumpExtras(reqs) ==
    GroupBy(Concat([i \in 1..Len(reqs) |->
        LET envs == SeqOf(main_envs(reqs[i]), EnvOrder)
        IN  [e \in 1..Len(envs) |-> <<(<<envs[e]>>), _format_req(reqs[i])>>]]))

\* dumps, line 179: the keywords as setup() receives them
DumpKeywords(project) == Str(join(<<" ">>, project.keywords))

\* dumps, lines 145-208: the keyword arguments of the emitted setup() call
\* (long_description, python_requires, links, packages and package_data,
\* which load does not read back into the fields modelled here, are left out)
dumps(reqs, project) ==
    LET opt(cond, k, v) == IF cond THEN {<<k, v>>} ELSE {}
        authors == project.authors
    IN  FromPairs(
            {<<"name", Str(project.raw_name)>>, <<"version", Str(project.version)>>,
             <<"install_requires", List(DumpInstallRequires(reqs))>>}
            \cup opt(project.description # <<>>, "description", Str(project.description))
            \cup opt(Len(authors) >= 1, "author", Str(authors[1].name))
            \cup opt(Len(authors) >= 1 /\ authors[1].mail # <<>>,
                     "author_email", Str(authors[1].mail))
            \cup opt(Len(authors) > 1, "maintainer", Str(authors[2].name))
            \cup opt(Len(authors) > 1 /\ authors[2].mail # <<>>,
                     "maintainer_email", Str(authors[2].mail))
            \cup opt(project.license # <<>>, "license", Str(project.license))
            \cup opt(project.keywords # <<>>, "keywords", DumpKeywords(project))
            \cup opt(project.classifiers # <<>>, "classifiers", List(project.classifiers))
            \cup opt(project.platforms # <<>>, "platforms", List(project.platforms))
            \cup opt(project.entrypoints # <<>>, "entry_points",
                     Dict(DumpEntryPoints(project)))
            \cup opt(DumpExtras(reqs) # <<>>, "extras_require", Dict(DumpExtras(reqs))))

\* --------------------------------------------------------- one load() call
ProjDir == "proj"
Dirs == {"home", ProjDir}
\* where a script that changes directory itself goes
ScriptDir == "elsewhere"

NoneInfo == [none |-> TRUE, metadata |-> <<>>, top |-> <<>>]
NoRoot == [none |-> TRUE]
SomeInfo(d) == [none |-> FALSE, metadata |-> d.metadata, top |-> d.top]

\* values a scalar keyword of the generated scripts takes
ScalarValues == {<<>>, UNKNOWN, <<" ">>, <<"a">>, <<" ", "a", " ">>}

\* install_requires of the generated scripts: well-formed or malformed lines
LoadRequires == {<<>>, <<(<<"flask", ">=1.0">>)>>, <<(<<"flask", "!", ">=1.0">>)>>}

\* setup() keyword arguments of the scripts load is run on
LoadKwargs ==
    {FromPairs((IF name = <<>> THEN {} ELSE {<<"name", Str(name)>>})
               \cup (IF version = <<>> THEN {} ELSE {<<"version", Str(version)>>})
               \cup (IF reqs = <<>> THEN {} ELSE {<<"install_requires", List(reqs)>>})) :
        name \in ScalarValues, version \in ScalarValues \ {<<"a">>}, reqs \in LoadRequires}

\* the scripts load is run on.  readable: path.read_text succeeds; marker: the
\* text holds 'setup('; calls: running the script reaches its setup call;
\* raises/when: what running the rewritten script raises, before or after
\* that call; chdirs: the script changes the working directory itself
Sources ==
    [readable : BOOLEAN, marker : BOOLEAN, calls : BOOLEAN,
     raises : {"", "ValueError", "SystemExit"}, when : {"before", "after"},
     chdirs : BOOLEAN, kwargs : LoadKwargs]

\* the exceptions `except Exception` catches
IsException(e) == e \in {"ValueError", "OSError", "DistutilsError", "RuntimeError",
                         "InvalidRequirement"}

LogError(msg) == [level |-> "error", msg |-> msg]

\* context_tools.chdir, entering: remember the directory, then switch
chdir_enter(path) == /\ saved' = cwd
                     /\ cwd' = path

\* context_tools.chdir, leaving (finally): switch back
chdir_exit == cwd' = saved

InitLoad ==
    /\ pc = "call"
    /\ source \in Sources
    /\ cwd0 \in Dirs
    /\ cwd = cwd0
    /\ saved = ""
    /\ dist = [set |-> FALSE, v |-> <<>>]
    /\ info = NoneInfo
    /\ root = NoRoot
    /\ log = <<>>
    /\ pending = ""
    /\ exc = ""
    /\ thrown = <<>>
    /\ execCwd = <<>>
    /\ fallback = FALSE
    /\ extracted = ""

\* _execute, lines 230-234: read the script and rewrite its setup call
Execute_Read ==
    /\ pc = "call"
    /\ IF ~source.readable
       THEN /\ pc' = "raised"
            /\ exc' = "OSError"
            /\ thrown' = Append(thrown, <<"read_text", "OSError">>)
            /\ UNCHANGED <<log, extracted>>
       ELSE IF ~source.marker
       THEN /\ log' = Append(log, LogError("cannot modify source"))
            /\ extracted' = "None"
            /\ pc' = "info"
            /\ UNCHANGED <<exc, thrown>>
       ELSE /\ pc' = "safe_enter"
            /\ UNCHANGED <<log, exc, thrown, extracted>>
    /\ UNCHANGED <<source, cwd0, cwd, saved, dist, info, root, pending, execCwd, fallback>>
    /\ UNCHANGED outsideLoad

\* _execute, line 241: with chdir(path.parent)
Execute_Enter ==
    /\ pc = "safe_enter"
    /\ chdir_enter(ProjDir)
    /\ pc' = "safe_exec"
    /\ UNCHANGED <<source, cwd0, dist, info, root, log, pending, exc, thrown, execCwd,
                   fallback, extracted>>
    /\ UNCHANGED outsideLoad

\* Execute_Catch as a handler that logs and re-raises
Execute_Catch_Reraise(e) ==
    /\ log' = Append(log, LogError(e))
    /\ pending' = e

\* what `except Exception` at line 244 does with an exception e of the script
Execute_Catch(e) ==
    IF IsException(e)
    THEN /\ log' = Append(log, LogError(e))
         /\ pending' = ""
    ELSE /\ pending' = e
         /\ UNCHANGED log

\* _execute, lines 242-245: run the rewritten script under try/except
Execute_Exec ==
    /\ pc = "safe_exec"
    /\ execCwd' = Append(execCwd, cwd)
    /\ cwd' = IF source.chdirs THEN ScriptDir ELSE cwd
    /\ dist' = IF source.calls /\ ~(source.raises # "" /\ source.when = "before")
               THEN [set |-> TRUE, v |-> source.kwargs]
               ELSE dist
    /\ IF source.raises # ""
       THEN /\ thrown' = Append(thrown, <<"exec", source.raises>>)
            /\ Execute_Catch(source.raises)
       ELSE UNCHANGED <<thrown, log, pending>>
    /\ pc' = "safe_exit"
    /\ UNCHANGED <<source, cwd0, saved, info, root, exc, fallback, extracted>>
    /\ UNCHANGED outsideLoad

\* Execute_Exit with os.chdir called once, outside any scoped block
Execute_Exit_NoRestore ==
    /\ pc = "safe_exit"
    /\ IF pending # ""
       THEN /\ pc' = "raised"
            /\ exc' = pending
       ELSE /\ pc' = "dist"
            /\ UNCHANGED exc
    /\ UNCHANGED <<source, cwd0, cwd, saved, dist, info, root, log, pending, thrown,
                   execCwd, fallback, extracted>>
    /\ UNCHANGED outsideLoad

\* _execute, line 241: leaving the with block, normally or by an exception
Execute_Exit ==
    /\ pc = "safe_exit"
    /\ chdir_exit
    /\ IF pending # ""
       THEN /\ pc' = "raised"
            /\ exc' = pending
       ELSE /\ pc' = "dist"
            /\ UNCHANGED exc
    /\ UNCHANGED <<source, cwd0, saved, dist, info, root, log, pending, thrown, execCwd,
                   fallback, extracted>>
    /\ UNCHANGED outsideLoad

\* _execute, lines 247-251: the captured keyword arguments, if any
Execute_Return ==
    /\ pc = "dist"
    /\ IF ~dist.set
       THEN /\ log' = Append(log, LogError("distribution was not called"))
            /\ info' = NoneInfo
            /\ extracted' = "None"
       ELSE /\ info' = SomeInfo(Distribution(dist.v))
            /\ extracted' = "Distribution"
            /\ UNCHANGED log
    /\ pc' = "info"
    /\ UNCHANGED <<source, cwd0, cwd, saved, dist, root, pending, exc, thrown, execCwd, fallback>>
    /\ UNCHANGED outsideLoad

\* load, lines 80-82: fall back to run_setup when _execute returned None
Load_Info ==
    /\ pc = "info"
    /\ IF info.none
       THEN /\ chdir_enter(ProjDir)
            /\ fallback' = TRUE
            /\ pc' = "run_setup"
       ELSE /\ pc' = "assemble"
            /\ UNCHANGED <<cwd, saved, fallback>>
    /\ UNCHANGED <<source, cwd0, dist, info, root, log, pending, exc, thrown, execCwd,
                   extracted>>
    /\ UNCHANGED outsideLoad

\* load, line 83: run_setup(path.name) runs the unmodified script: it returns
\* the distribution of the script's setup call, or raises (a toolchain error
\* of the script's commands, or RuntimeError when setup() was never called)
Load_RunSetup ==
    /\ pc = "run_setup"
    /\ execCwd' = Append(execCwd, cwd)
    /\ cwd' = IF source.chdirs THEN ScriptDir ELSE cwd
    /\ \E error \in {"", "DistutilsError"} :
          LET raised == IF ~source.calls THEN "RuntimeError" ELSE error
          IN  IF raised # ""
              THEN /\ pending' = raised
                   /\ thrown' = Append(thrown, <<"run_setup", raised>>)
                   /\ UNCHANGED info
              ELSE /\ info' = SomeInfo(Distribution(source.kwargs))
                   /\ UNCHANGED <<pending, thrown>>
    /\ pc' = "run_setup_exit"
    /\ UNCHANGED <<source, cwd0, saved, dist, root, log, exc, fallback, extracted>>
    /\ UNCHANGED outsideLoad

\* Load_Exit with the fallback's exception wrapped in another one
Load_Exit_Wrap ==
    /\ pc = "run_setup_exit"
    /\ chdir_exit
    /\ IF pending # ""
       THEN /\ pc' = "raised"
            /\ exc' = "ConverterError"
       ELSE /\ pc' = "assemble"
            /\ UNCHANGED exc
    /\ UNCHANGED <<source, cwd0, saved, dist, info, root, log, pending, thrown, execCwd,
                   fallback, extracted>>
    /\ UNCHANGED outsideLoad

\* load, line 82: leaving the with block, normally or by an exception
Load_Exit ==
    /\ pc = "run_setup_exit"
    /\ chdir_exit
    /\ IF pending # ""
       THEN /\ pc' = "raised"
            /\ exc' = pending
       ELSE /\ pc' = "assemble"
            /\ UNCHANGED exc
    /\ UNCHANGED <<source, cwd0, saved, dist, info, root, log, pending, thrown, execCwd,
                   fallback, extracted>>
    /\ UNCHANGED outsideLoad

\* load, lines 85-139: build the RootDependency and return it
Load_Assemble ==
    /\ pc = "assemble"
    /\ IF ~RequirementsValid(info)
       THEN /\ pc' = "raised"
            /\ exc' = "InvalidRequirement"
            /\ thrown' = Append(thrown, <<"Requirement", "InvalidRequirement">>)
            /\ UNCHANGED root
       ELSE /\ pc' = "returned"
            /\ root' = LoadRoot(info)
            /\ UNCHANGED <<exc, thrown>>
    /\ UNCHANGED <<source, cwd0, cwd, saved, dist, info, log, pending, execCwd, fallback,
                   extracted>>
    /\ UNCHANGED outsideLoad

NextLoad ==
    \/ Execute_Read
    \/ Execute_Enter
    \/ Execute_Exec
    \/ Execute_Exit
    \/ Execute_Return
    \/ Load_Info
    \/ Load_RunSetup
    \/ Load_Exit
    \/ Load_Assemble

\* the variables of a load call, when no load call is modelled
IdleLoad ==
    /\ pc = "idle"
    /\ source = <<>>
    /\ cwd0 = ""
    /\ cwd = ""
    /\ saved = ""
    /\ dist = <<>>
    /\ info = <<>>
    /\ root = <<>>
    /\ log = <<>>
    /\ pending = ""
    /\ exc = ""
    /\ thrown = <<>>
    /\ execCwd = <<>>
    /\ fallback = FALSE
    /\ extracted = ""

\* ------------------------------------------------- load, dumps, load again
IdleRoundTrip ==
    /\ rt_pc = "idle"
    /\ setup_kwargs = <<>>
    /\ loaded = <<>>
    /\ content = <<>>
    /\ reloaded = <<>>

RECURSIVE Words(_)
\* the keywords of 1 to n characters
Words(n) == IF n = 0 THEN {} ELSE Words(n - 1) \cup {[i \in 1..n |-> "k"]}

\* keyword lists of the generated scripts: none, one or two keywords
KeywordLists ==
    {<<>>} \cup {<<w>> : w \in Words(MaxKeywordLen)}
           \cup {<<w1, w2>> : w1 \in Words(MaxKeywordLen), w2 \in Words(MaxKeywordLen)}

EntryPointOptions ==
    {<<>>,
     <<(<<"console_scripts", <<(<<"x", "=", "m:f">>)>> >>)>>,
     << <<"console_scripts", << <<"x", "=", "m:f">>, <<"y", "=", "m:g">> >> >>,
        <<"gui_scripts", <<(<<"z", "=", "m:h">>)>> >> >>}

InstallRequiresOptions ==
    {<<>>,
     <<(<<"flask", ">=1.0">>)>>,
     << <<"requests", "[", "socks", "]", ">=2.0", ";", "py3">>, <<"flask">> >>}

ExtrasRequireOptions ==
    {<<>>,
     <<(<< <<"dev">>, <<(<<"pytest">>)>> >>)>>,
     <<(<< <<"test">>, <<(<<"pytest", ">=1.0">>)>> >>)>>,
     << << <<"test", ":", "win">>, <<(<<"pytest">>)>> >>,
        << <<"docs">>, <<(<<"flask">>)>> >> >>}

\* the setup() keyword arguments of the well-formed scripts of the round trip
RoundTripKwargs ==
    LET opt(k, v, tag(_)) == IF v = <<>> THEN {} ELSE {<<k, tag(v)>>}
    IN  {FromPairs(opt("name", name, Str) \cup opt("version", version, Str)
                   \cup opt("license", license, Str)
                   \cup opt("keywords", keywords, List)
                   \cup opt("classifiers", classifiers, List)
                   \cup opt("platforms", platforms, List)
                   \cup opt("author", people[1], Str)
                   \cup opt("maintainer", people[2], Str)
                   \cup opt("entry_points", entry_points, Dict)
                   \cup opt("install_requires", install_requires, List)
                   \cup opt("extras_require", extras_require, Dict)) :
            name \in {<<"a">>, <<" ", "a">>, <<>>},
            version \in {<<"1">>, <<>>},
            license \in {<<"M">>, <<>>},
            keywords \in KeywordLists,
            classifiers \in {<<>>, <<(<<"C">>)>>},
            platforms \in {<<>>, <<(<<"l">>)>>},
            people \in {<< <<>>, <<>> >>, << <<"x">>, <<>> >>, << <<>>, <<"y">> >>,
                        << <<"x">>, <<"y">> >>},
            entry_points \in EntryPointOptions,
            install_requires \in InstallRequiresOptions,
            extras_require \in ExtrasRequireOptions}

\* load, lines 80 and 85-139, on a script whose rewritten source runs cleanly
\* and captures the keyword arguments
load(kwargs) == LoadRoot(Distribution(kwargs))

InitRoundTrip ==
    /\ rt_pc = "script"
    /\ setup_kwargs \in RoundTripKwargs
    /\ loaded = <<>>
    /\ content = <<>>
    /\ reloaded = <<>>

\* load(path) of the first script
RT_Load ==
    /\ rt_pc = "script"
    /\ loaded' = load(setup_kwargs)
    /\ rt_pc' = "loaded"
    /\ UNCHANGED <<setup_kwargs, content, reloaded>>
    /\ UNCHANGED outsideRoundTrip

\* dumps(reqs, project) with the project's own dependencies as reqs
RT_Dumps ==
    /\ rt_pc = "loaded"
    /\ content' = dumps(loaded.deps, loaded)
    /\ rt_pc' = "emitted"
    /\ UNCHANGED <<setup_kwargs, loaded, reloaded>>
    /\ UNCHANGED outsideRoundTrip

\* load(path) of the emitted script
RT_Reload ==
    /\ rt_pc = "emitted"
    /\ reloaded' = load(content)
    /\ rt_pc' = "reloaded"
    /\ UNCHANGED <<setup_kwargs, loaded, content>>
    /\ UNCHANGED outsideRoundTrip

NextRoundTrip ==
    \/ RT_Load
    \/ RT_Dumps
    \/ RT_Reload

\* ------------------------------------------------- install(reqs) and run()
NoProcess == [status |-> "none", reaped |-> FALSE, returncode |-> -1,
              out |-> 0, err |-> 0, pipes_closed |-> FALSE]
NoResult == [kind |-> "", value |-> 0]

IdlePM ==
    /\ pm_pc = "idle"
    /\ install_reqs = <<>>
    /\ code = 0
    /\ outN = 0
    /\ errN = 0
    /\ tmpdir = FALSE
    /\ reqfile = [exists |-> FALSE, lines |-> <<>>]
    /\ command_pip = <<>>
    /\ process_pip = NoProcess
    /\ process_grep = NoProcess
    /\ stdout_pipe = 0
    /\ stderr_pipe = <<>>
    /\ stderr = <<>>
    /\ pm_log = <<>>
    /\ pm_pending = ""
    /\ fault = ""
    /\ run_result = NoResult
    /\ result = NoResult

\* the requirements install() is handed
InstallReqs ==
    {[name |-> "flask", extras |-> {}, version |-> ">=1.0", marker |-> {}, envs |-> {}],
     [name |-> "pytest", extras |-> {}, version |-> "", marker |-> {}, envs |-> {}]}

RECURSIVE SeqsUpTo(_, _)
\* the sequences over S of length at most n
SeqsUpTo(S, n) ==
    IF n = 0 THEN {<<>>}
    ELSE SeqsUpTo(S, n - 1)
         \cup {Append(q, x) : q \in {r \in SeqsUpTo(S, n - 1) : Len(r) = n - 1}, x \in S}

\* PIPConverter(lock=True).dump: the line written for one requirement
PIPLine(req) == <<req.name>> \o (IF req.version # "" THEN <<req.version>> ELSE <<>>)

\* the lines of the requirement file for reqs
PIPLines(rs) == [i \in 1..Len(rs) |-> PIPLine(rs[i])]

ReqPath == "requiements.txt"

InitPM ==
    /\ pm_pc = "install"
    /\ install_reqs \in SeqsUpTo(InstallReqs, MaxReqs)
    /\ code \in 0..MaxCode
    /\ outN \in 0..MaxOut
    /\ errN \in 0..MaxErr
    /\ tmpdir = FALSE
    /\ reqfile = [exists |-> FALSE, lines |-> <<>>]
    /\ command_pip = <<>>
    /\ process_pip = NoProcess
    /\ process_grep = NoProcess
    /\ stdout_pipe = 0
    /\ stderr_pipe = <<>>
    /\ stderr = <<>>
    /\ pm_log = <<>>
    /\ pm_pending = ""
    /\ fault = ""
    /\ run_result = NoResult
    /\ result = NoResult

\* install, lines 25-29: the temporary directory, holding no requirement file
Install_Enter ==
    /\ pm_pc = "install"
    /\ tmpdir' = TRUE
    /\ reqfile' = [exists |-> FALSE, lines |-> <<>>]
    /\ pm_pc' = "dump"
    /\ UNCHANGED <<install_reqs, code, outN, errN, command_pip, process_pip, process_grep,
                   stdout_pipe, stderr_pipe, stderr, pm_log, pm_pending, fault,
                   run_result, result>>
    /\ UNCHANGED outsidePM

\* install, line 30: converter.dump creates the file, then writes line by line
Install_Dump ==
    /\ pm_pc = "dump"
    /\ ~(reqfile.exists /\ Len(reqfile.lines) = Len(install_reqs))
    /\ reqfile' = IF ~reqfile.exists THEN [exists |-> TRUE, lines |-> <<>>]
                  ELSE [reqfile EXCEPT
                           !.lines = Append(@, PIPLine(install_reqs[Len(reqfile.lines) + 1]))]
    /\ UNCHANGED <<pm_pc, install_reqs, code, outN, errN, tmpdir, command_pip, process_pip,
                   process_grep, stdout_pipe, stderr_pipe, stderr, pm_log, pm_pending,
                   fault, run_result, result>>
    /\ UNCHANGED outsidePM

\* install, line 30: converter.dump raises (the disk is full, say)
Install_DumpRaises ==
    /\ pm_pc = "dump"
    /\ fault' = "dump"
    /\ pm_pending' = "OSError"
    /\ pm_pc' = "cleanup"
    /\ UNCHANGED <<install_reqs, code, outN, errN, tmpdir, reqfile, command_pip, process_pip,
                   process_grep, stdout_pipe, stderr_pipe, stderr, pm_log, run_result,
                   result>>
    /\ UNCHANGED outsidePM

\* install, line 31: the file is written; call run
Install_Run ==
    /\ pm_pc = "dump"
    /\ reqfile.exists
    /\ Len(reqfile.lines) = Len(install_reqs)
    /\ pm_pc' = "popen_pip"
    /\ UNCHANGED <<install_reqs, code, outN, errN, tmpdir, reqfile, command_pip, process_pip,
                   process_grep, stdout_pipe, stderr_pipe, stderr, pm_log, pm_pending,
                   fault, run_result, result>>
    /\ UNCHANGED outsidePM

\* run, lines 34 and 36: launch the installer with both streams captured
Run_PopenPip ==
    /\ pm_pc = "popen_pip"
    /\ command_pip' = <<"-m", "pip", "install", "--no-deps", "-r", ReqPath>>
    /\ process_pip' = [NoProcess EXCEPT !.status = "running"]
    /\ pm_pc' = "popen_grep"
    /\ UNCHANGED <<install_reqs, code, outN, errN, tmpdir, reqfile, process_grep, stdout_pipe,
                   stderr_pipe, stderr, pm_log, pm_pending, fault, run_result, result>>
    /\ UNCHANGED outsidePM

\* run, line 36: Popen raises (the executable does not exist, say)
Run_PopenPipRaises ==
    /\ pm_pc = "popen_pip"
    /\ fault' = "popen_pip"
    /\ pm_pending' = "OSError"
    /\ run_result' = [kind |-> "raised", value |-> 0]
    /\ pm_pc' = "cleanup"
    /\ UNCHANGED <<install_reqs, code, outN, errN, tmpdir, reqfile, command_pip, process_pip,
                   process_grep, stdout_pipe, stderr_pipe, stderr, pm_log, result>>
    /\ UNCHANGED outsidePM

\* run, lines 35 and 37: launch the filter on the installer's stdout
Run_PopenGrep ==
    /\ pm_pc = "popen_grep"
    /\ process_grep' = [NoProcess EXCEPT !.status = "running"]
    /\ pm_pc' = "wait_pip"
    /\ UNCHANGED <<install_reqs, code, outN, errN, tmpdir, reqfile, command_pip, process_pip,
                   stdout_pipe, stderr_pipe, stderr, pm_log, pm_pending, fault,
                   run_result, result>>
    /\ UNCHANGED outsidePM

\* run, line 37: Popen raises (no process can be forked, say); the with
\* block of line 38 was not entered, so nothing manages the installer
Run_PopenGrepRaises ==
    /\ pm_pc = "popen_grep"
    /\ fault' = "popen_grep"
    /\ pm_pending' = "OSError"
    /\ run_result' = [kind |-> "raised", value |-> 0]
    /\ pm_pc' = "cleanup"
    /\ UNCHANGED <<install_reqs, code, outN, errN, tmpdir, reqfile, command_pip, process_pip,
                   process_grep, stdout_pipe, stderr_pipe, stderr, pm_log, result>>
    /\ UNCHANGED outsidePM

\* run, line 39: process_pip.wait()
Run_WaitPip ==
    /\ pm_pc = "wait_pip"
    /\ process_pip.status = "exited"
    /\ process_pip' = [process_pip EXCEPT !.reaped = TRUE]
    /\ pm_pc' = "wait_grep"
    /\ UNCHANGED <<install_reqs, code, outN, errN, tmpdir, reqfile, command_pip, process_grep,
                   stdout_pipe, stderr_pipe, stderr, pm_log, pm_pending, fault,
                   run_result, result>>
    /\ UNCHANGED outsidePM

\* run, line 40: process_grep.wait()
Run_WaitGrep ==
    /\ pm_pc = "wait_grep"
    /\ process_grep.status = "exited"
    /\ process_grep' = [process_grep EXCEPT !.reaped = TRUE]
    /\ pm_pc' = "read"
    /\ UNCHANGED <<install_reqs, code, outN, errN, tmpdir, reqfile, command_pip, process_pip,
                   stdout_pipe, stderr_pipe, stderr, pm_log, pm_pending, fault,
                   run_result, result>>
    /\ UNCHANGED outsidePM

\* run, line 42: process_pip.stderr.read().decode(), to end of file
Run_ReadStderr ==
    /\ pm_pc = "read"
    /\ process_pip.status = "exited"
    /\ stderr' = stderr_pipe
    /\ stderr_pipe' = <<>>
    /\ pm_pc' = "log"
    /\ UNCHANGED <<install_reqs, code, outN, errN, tmpdir, reqfile, command_pip, process_pip,
                   process_grep, stdout_pipe, pm_log, pm_pending, fault, run_result,
                   result>>
    /\ UNCHANGED outsidePM

\* the level run logs the installer's stderr at, always "error"
LogLevel_AlwaysError(returncode) == "error"

\* run, lines 43-46: the level run logs the installer's stderr at
LogLevel(returncode) == IF returncode # 0 THEN "error" ELSE "debug"

\* run, lines 43-47: log the text, then return the installer's exit code
Run_Log ==
    /\ pm_pc = "log"
    /\ pm_log' = Append(pm_log, [level |-> LogLevel(process_pip.returncode),
                                 text |-> stderr])
    /\ run_result' = [kind |-> "returning", value |-> process_pip.returncode]
    /\ pm_pc' = "exit_grep"
    /\ UNCHANGED <<install_reqs, code, outN, errN, tmpdir, reqfile, command_pip, process_pip,
                   process_grep, stdout_pipe, stderr_pipe, stderr, pm_pending, fault,
                   result>>
    /\ UNCHANGED outsidePM

\* run, lines 39-42: waiting or reading is interrupted by an exception
Run_Interrupted ==
    /\ pm_pc \in {"wait_pip", "wait_grep", "read"}
    /\ fault' = pm_pc
    /\ pm_pending' = "KeyboardInterrupt"
    /\ pm_pc' = "exit_grep"
    /\ UNCHANGED <<install_reqs, code, outN, errN, tmpdir, reqfile, command_pip, process_pip,
                   process_grep, stdout_pipe, stderr_pipe, stderr, pm_log, run_result,
                   result>>
    /\ UNCHANGED outsidePM

\* run, line 38: leaving the with block, process_grep.__exit__ waits for it
Run_ExitGrep ==
    /\ pm_pc = "exit_grep"
    /\ process_grep.status = "exited"
    /\ process_grep' = [process_grep EXCEPT !.reaped = TRUE, !.pipes_closed = TRUE]
    /\ pm_pc' = "exit_pip"
    /\ UNCHANGED <<install_reqs, code, outN, errN, tmpdir, reqfile, command_pip, process_pip,
                   stdout_pipe, stderr_pipe, stderr, pm_log, pm_pending, fault,
                   run_result, result>>
    /\ UNCHANGED outsidePM

\* run, line 38: process_pip.__exit__ closes its pipes and waits for it;
\* run then returns its value or raises the pending exception
Run_ExitPip ==
    /\ pm_pc = "exit_pip"
    /\ process_pip.status = "exited"
    /\ process_pip' = [process_pip EXCEPT !.reaped = TRUE, !.pipes_closed = TRUE]
    /\ run_result' = IF pm_pending # "" THEN [kind |-> "raised", value |-> 0]
                     ELSE [run_result EXCEPT !.kind = "returned"]
    /\ pm_pc' = "cleanup"
    /\ UNCHANGED <<install_reqs, code, outN, errN, tmpdir, reqfile, command_pip, process_grep,
                   stdout_pipe, stderr_pipe, stderr, pm_log, pm_pending, fault, result>>
    /\ UNCHANGED outsidePM

\* install, line 26: leaving the TemporaryDirectory block removes the
\* directory and the file; install returns run's value or raises
Install_Cleanup ==
    /\ pm_pc = "cleanup"
    /\ tmpdir' = FALSE
    /\ reqfile' = [exists |-> FALSE, lines |-> <<>>]
    /\ result' = IF pm_pending # "" THEN [kind |-> "raised", value |-> 0]
                 ELSE [kind |-> "returned", value |-> run_result.value]
    /\ pm_pc' = IF pm_pending # "" THEN "raised" ELSE "returned"
    /\ UNCHANGED <<install_reqs, code, outN, errN, command_pip, process_pip, process_grep,
                   stdout_pipe, stderr_pipe, stderr, pm_log, pm_pending, fault,
                   run_result>>
    /\ UNCHANGED outsidePM

\* the installer writes a chunk to its stdout, when the pipe has room
Pip_WriteStdout ==
    /\ process_pip.status = "running"
    /\ process_pip.out < outN
    /\ stdout_pipe < PipeCap
    /\ stdout_pipe' = stdout_pipe + 1
    /\ process_pip' = [process_pip EXCEPT !.out = @ + 1]
    /\ UNCHANGED <<pm_pc, install_reqs, code, outN, errN, tmpdir, reqfile, command_pip,
                   process_grep, stderr_pipe, stderr, pm_log, pm_pending, fault,
                   run_result, result>>
    /\ UNCHANGED outsidePM

\* the installer writes a chunk to its stderr, when the pipe has room
Pip_WriteStderr ==
    /\ process_pip.status = "running"
    /\ process_pip.err < errN
    /\ Len(stderr_pipe) < PipeCap
    /\ stderr_pipe' = Append(stderr_pipe, process_pip.err + 1)
    /\ process_pip' = [process_pip EXCEPT !.err = @ + 1]
    /\ UNCHANGED <<pm_pc, install_reqs, code, outN, errN, tmpdir, reqfile, command_pip,
                   process_grep, stdout_pipe, stderr, pm_log, pm_pending, fault,
                   run_result, result>>
    /\ UNCHANGED outsidePM

\* the installer exits once all its writes were accepted
Pip_Exit ==
    /\ process_pip.status = "running"
    /\ process_pip.out = outN
    /\ process_pip.err = errN
    /\ process_pip' = [process_pip EXCEPT !.status = "exited", !.returncode = code]
    /\ UNCHANGED <<pm_pc, install_reqs, code, outN, errN, tmpdir, reqfile, command_pip,
                   process_grep, stdout_pipe, stderr_pipe, stderr, pm_log, pm_pending,
                   fault, run_result, result>>
    /\ UNCHANGED outsidePM

\* the filter reads a chunk from its stdin
Grep_Read ==
    /\ process_grep.status = "running"
    /\ stdout_pipe > 0
    /\ stdout_pipe' = stdout_pipe - 1
    /\ UNCHANGED <<pm_pc, install_reqs, code, outN, errN, tmpdir, reqfile, command_pip,
                   process_pip, process_grep, stderr_pipe, stderr, pm_log, pm_pending,
                   fault, run_result, result>>
    /\ UNCHANGED outsidePM

\* the filter meets end of file (the installer has exited) and exits
Grep_Exit ==
    /\ process_grep.status = "running"
    /\ stdout_pipe = 0
    /\ process_pip.status = "exited"
    /\ process_grep' = [process_grep EXCEPT !.status = "exited", !.returncode = 0]
    /\ UNCHANGED <<pm_pc, install_reqs, code, outN, errN, tmpdir, reqfile, command_pip,
                   process_pip, stdout_pipe, stderr_pipe, stderr, pm_log, pm_pending,
                   fault, run_result, result>>
    /\ UNCHANGED outsidePM

\* the steps of install, of run and of the two children that need no failure
\* of the environment
PMProgress ==
    \/ Install_Enter
    \/ Install_Dump
    \/ Install_Run
    \/ Run_PopenPip
    \/ Run_PopenGrep
    \/ Run_WaitPip
    \/ Run_WaitGrep
    \/ Run_ReadStderr
    \/ Run_Log
    \/ Run_ExitGrep
    \/ Run_ExitPip
    \/ Install_Cleanup
    \/ Pip_WriteStdout
    \/ Pip_WriteStderr
    \/ Pip_Exit
    \/ Grep_Read
    \/ Grep_Exit

\* exceptions the environment may raise in install and run
PMFaults ==
    \/ Install_DumpRaises
    \/ Run_PopenPipRaises
    \/ Run_PopenGrepRaises
    \/ Run_Interrupted

NextPM ==
    \/ PMProgress
    \/ PMFaults

\* ------------------------------------------- two load calls in one process
Threads == {1, 2}
\* the directory of the script each thread loads
Parent(t) == IF t = 1 THEN "projA" ELSE "projB"
\* the working directory before either call
HomeDir == "home"

IdleThreads ==
    /\ t_pc = <<>>
    /\ t_cwd = ""
    /\ t_saved = <<>>
    /\ t_info = <<>>
    /\ t_execCwd = <<>>
    /\ overlapped = FALSE

InitThreads ==
    /\ t_pc = [t \in Threads |-> "idle"]
    /\ t_cwd = HomeDir
    /\ t_saved = [t \in Threads |-> ""]
    /\ t_info = [t \in Threads |-> FALSE]
    /\ t_execCwd = [t \in Threads |-> <<>>]
    /\ overlapped = FALSE

\* thread t takes a step while the other thread's call is open
Overlaps(t) == \E u \in Threads \ {t} : t_pc[u] \notin {"idle", "done"}

\* load, line 80, and _execute, lines 230-234: the call starts; a source
\* without the marker goes straight to the fallback
T_Call(t) ==
    /\ t_pc[t] = "idle"
    /\ \E marker \in BOOLEAN :
          t_pc' = [t_pc EXCEPT ![t] = IF marker THEN "safe_enter" ELSE "fallback_enter"]
    /\ overlapped' = (overlapped \/ Overlaps(t))
    /\ UNCHANGED <<t_cwd, t_saved, t_info, t_execCwd>>
    /\ UNCHANGED outsideThreads

\* _execute, line 241, and load, line 82: with chdir(path.parent)
T_Enter(t) ==
    /\ t_pc[t] \in {"safe_enter", "fallback_enter"}
    /\ t_saved' = [t_saved EXCEPT ![t] = t_cwd]
    /\ t_cwd' = Parent(t)
    /\ t_pc' = [t_pc EXCEPT ![t] = IF @ = "safe_enter" THEN "safe_exec" ELSE "run_setup"]
    /\ overlapped' = (overlapped \/ Overlaps(t))
    /\ UNCHANGED <<t_info, t_execCwd>>
    /\ UNCHANGED outsideThreads

\* _execute, lines 242-245, and load, line 83: the script runs in whatever
\* the process working directory is; the safe run captures _dist or not
T_Exec(t) ==
    /\ t_pc[t] \in {"safe_exec", "run_setup"}
    /\ t_execCwd' = [t_execCwd EXCEPT ![t] = Append(@, t_cwd)]
    /\ \E captured \in BOOLEAN :
          t_info' = [t_info EXCEPT ![t] = IF t_pc[t] = "safe_exec" THEN captured ELSE TRUE]
    /\ t_pc' = [t_pc EXCEPT ![t] = IF @ = "safe_exec" THEN "safe_exit" ELSE "run_setup_exit"]
    /\ overlapped' = (overlapped \/ Overlaps(t))
    /\ UNCHANGED <<t_cwd, t_saved>>
    /\ UNCHANGED outsideThreads

\* T_Exit with os.chdir called once, outside any scoped block
T_Exit_NoRestore(t) ==
    /\ t_pc[t] \in {"safe_exit", "run_setup_exit"}
    /\ t_pc' = [t_pc EXCEPT ![t] = IF t_info[t] THEN "done" ELSE "fallback_enter"]
    /\ overlapped' = (overlapped \/ Overlaps(t))
    /\ UNCHANGED <<t_cwd, t_saved, t_info, t_execCwd>>
    /\ UNCHANGED outsideThreads

\* _execute, lines 241 and 247-251, and load, lines 81-82: leaving the with
\* block restores the saved directory; without a distribution, fall back
T_Exit(t) ==
    /\ t_pc[t] \in {"safe_exit", "run_setup_exit"}
    /\ t_cwd' = t_saved[t]
    /\ t_pc' = [t_pc EXCEPT ![t] = IF t_info[t] THEN "done" ELSE "fallback_enter"]
    /\ overlapped' = (overlapped \/ Overlaps(t))
    /\ UNCHANGED <<t_saved, t_info, t_execCwd>>
    /\ UNCHANGED outsideThreads

NextThreads ==
    \E t \in Threads :
        \/ T_Call(t)
        \/ T_Enter(t)
        \/ T_Exec(t)
        \/ T_Exit(t)

\* ---------------------------------------------------------- specifications
Init == InitLoad /\ IdleRoundTrip /\ IdlePM /\ IdleThreads

Next == NextLoad

Spec == Init /\ [][Next]_vars

InitRT == InitRoundTrip /\ IdleLoad /\ IdlePM /\ IdleThreads

NextRT == NextRoundTrip

SpecRoundTrip == InitRT /\ [][NextRT]_vars

InitInstall == InitPM /\ IdleLoad /\ IdleRoundTrip /\ IdleThreads

NextInstall == NextPM

SpecInstall == InitInstall /\ [][NextInstall]_vars

InitConcurrent == InitThreads /\ IdleLoad /\ IdleRoundTrip /\ IdlePM

NextConcurrent == NextThreads

SpecConcurrent == InitConcurrent /\ [][NextConcurrent]_vars

\* ------------------------------------------------------- claims about load
Terminal == pc \in {"returned", "raised"}
Logged(msg) == \E i \in 1..Len(log) : log[i] = LogError(msg)
Raised(step) == \E i \in 1..Len(thrown) : thrown[i][1] = step
\* the rewrite of the readable source left it unchanged
Noop == source.readable /\ ~source.marker
\* the rewritten script ran and raised
ScriptRaised == Raised("exec")
\* the rewritten script ran to its end, or to a caught exception, and left
\* _dist unassigned
NotPopulated ==
    /\ source.readable /\ source.marker
    /\ pc \notin {"call", "safe_enter", "safe_exec"}
    /\ ~dist.set

\* C2 as stated: each safe-path failure (the rewritten script raising any
\* exception, _dist not populated, the rewrite a no-op) is logged, makes safe
\* extraction yield no metadata, is not raised to the caller, and leads to
\* run_setup being attempted
C2_AsStated ==
    Terminal =>
        /\ ScriptRaised =>
              /\ Logged(source.raises)
              /\ extracted = "None"
              /\ exc # source.raises
              /\ fallback
        /\ NotPopulated =>
              /\ Logged("distribution was not called")
              /\ extracted = "None"
              /\ fallback
        /\ Noop =>
              /\ Logged("cannot modify source")
              /\ extracted = "None"
              /\ fallback

\* C2 amended: an Exception of the rewritten script is logged and never
\* reaches the caller; a no-op rewrite, and an unpopulated _dist once the
\* execution is over, are logged, yield no metadata and lead to run_setup; a
\* script that raised an Exception after _dist was assigned still yields
\* metadata without run_setup; an exception that is not an Exception is not
\* caught and reaches the caller
C2_RecoverableExtraction ==
    Terminal =>
        /\ (ScriptRaised /\ IsException(source.raises)) =>
              /\ Logged(source.raises)
              /\ exc # source.raises
              /\ extracted = (IF dist.set THEN "Distribution" ELSE "None")
        /\ (ScriptRaised /\ ~IsException(source.raises)) =>
              /\ pc = "raised"
              /\ exc = source.raises
              /\ extracted = ""
              /\ ~fallback
        /\ (NotPopulated /\ ~(ScriptRaised /\ ~IsException(source.raises))) =>
              /\ Logged("distribution was not called")
              /\ extracted = "None"
        /\ Noop =>
              /\ Logged("cannot modify source")
              /\ extracted = "None"
        /\ fallback <=> extracted = "None"

\* a script raised after its setup call: metadata kept, no fallback
C2_Witness ==
    /\ pc = "returned"
    /\ source.raises = "ValueError"
    /\ source.when = "after"
    /\ Logged("ValueError")
    /\ extracted = "Distribution"
    /\ ~fallback

UnguardedSteps == {"read_text", "exec", "run_setup", "Requirement"}

C7_CwdRestored ==
    /\ Terminal => cwd = cwd0
    /\ cwd # cwd0 => pc \in {"safe_exec", "safe_exit", "run_setup", "run_setup_exit"}

\* both executions ran in the script's directory, the script changed
\* directory itself, run_setup raised, and the caller's directory is back
C7_Witness ==
    /\ pc = "raised"
    /\ exc = "DistutilsError"
    /\ source.chdirs
    /\ execCwd = <<ProjDir, ProjDir>>
    /\ cwd0 # ProjDir
    /\ cwd = cwd0

\* C8: the RootDependency load returns has a non-empty name and a non-empty
\* version
C8_NameAndVersionPresent ==
    pc = "returned" => (root.raw_name # <<>> /\ root.version # <<>>)

\* -------------------------------------------------- claims about round trip
\* the first author of a loaded, if it has one
FirstAuthor(p) == IF p.authors = <<>> THEN <<>> ELSE <<p.authors[1]>>
\* the entry points of a loaded, grouped by group
Grouped(p) ==
    GroupBy([i \in 1..Len(p.entrypoints) |-> <<p.entrypoints[i].group, p.entrypoints[i]>>])
\* the unconditional dependencies of a loaded
Unconditional(p) == {p.deps[i] : i \in {j \in 1..Len(p.deps) : p.deps[j].envs = {"main"}}}
\* its dependencies under extras: each with the environments it belongs to
UnderExtras(p) == {p.deps[i] : i \in {j \in 1..Len(p.deps) : p.deps[j].envs # {"main"}}}

\* C1: load, then dumps, then load of the emitted script yields the same
\* name, version, license, keywords (in order), classifiers, platforms, first
\* author, grouped entry points, unconditional dependencies, and dependencies
\* under each extra as the first load
C1_RoundTrip ==
    rt_pc = "reloaded" =>
        /\ reloaded.raw_name = loaded.raw_name
        /\ reloaded.version = loaded.version
        /\ reloaded.license = loaded.license
        /\ reloaded.keywords = loaded.keywords
        /\ reloaded.classifiers = loaded.classifiers
        /\ reloaded.platforms = loaded.platforms
        /\ FirstAuthor(reloaded) = FirstAuthor(loaded)
        /\ Grouped(reloaded) = Grouped(loaded)
        /\ Unconditional(reloaded) = Unconditional(loaded)
        /\ UnderExtras(reloaded) = UnderExtras(loaded)

\* ------------------------------------------- claims about install and run
RunEnded == pm_pc \in {"cleanup", "returned", "raised"}
InstallEnded == pm_pc \in {"returned", "raised"}

\* C4: whatever the installer's exit code, once both children have finished
\* run returns exactly that code without raising, having logged the captured
\* stderr text exactly once, at error level if and only if the code is
\* non-zero and at debug level otherwise
C4_ExitCodePropagation ==
    /\ Len(pm_log) <= 1
    /\ (RunEnded /\ process_grep.status # "none" /\ fault = "") =>
          /\ run_result = [kind |-> "returned", value |-> code]
          /\ pm_log = <<[level |-> IF code = 0 THEN "debug" ELSE "error",
                         text |-> [i \in 1..errN |-> i]]>>
    /\ run_result.kind = "raised" => fault # ""

\* the installer failed with code 1 after writing to its stderr, and run
\* returned 1 with the text logged as an error
C4_Witness ==
    /\ run_result = [kind |-> "returned", value |-> 1]
    /\ code = 1
    /\ errN > 0
    /\ pm_log = <<[level |-> "error", text |-> [i \in 1..errN |-> i]]>>

\* C5: the requirement file holds one line per requirement before the
\* installer is launched with install --no-deps -r <path>, exists for as long
\* as the installer runs, and is gone with its directory once install has
\* returned or raised; install returns run's exit code
C5_TempFileLifecycle ==
    /\ process_pip.status # "none" =>
          command_pip = <<"-m", "pip", "install", "--no-deps", "-r", ReqPath>>
    /\ process_pip.status = "running" =>
          /\ tmpdir
          /\ reqfile = [exists |-> TRUE, lines |-> PIPLines(install_reqs)]
    /\ InstallEnded => (~tmpdir /\ ~reqfile.exists)
    /\ pm_pc = "returned" => result = [kind |-> "returned", value |-> code]

\* C6: when run has returned or raised, every child process that was started
\* has been waited for and its pipes closed
C6_ScopedChildren ==
    RunEnded =>
        /\ process_pip.status # "none" => (process_pip.reaped /\ process_pip.pipes_closed)
        /\ process_grep.status # "none" => (process_grep.reaped /\ process_grep.pipes_closed)

\* C9: run never deadlocks: until install has ended, the driver or one of
\* the two children can take a step, whatever the amounts of output
C9_NeverDeadlocks == InstallEnded \/ ENABLED PMProgress

\* ------------------------------------------ claims about concurrent loads
BothDone == \A t \in Threads : t_pc[t] = "done"
\* every execution so far ran in the directory of its own script
OwnDirectory == \A t \in Threads : \A i \in 1..Len(t_execCwd[t]) : t_execCwd[t][i] = Parent(t)

\* C10: two load calls that run strictly one after the other execute every
\* script in its own directory and leave the working directory as it was;
\* two interleaved calls can execute a script in the other call's directory
\* and leave the working directory changed (the witness)
C10_SerializedLoadsSafe ==
    ~overlapped =>
        /\ OwnDirectory
        /\ BothDone => t_cwd = HomeDir
        /\ (\A t \in Threads : t_pc[t] \in {"idle", "done"}) => t_cwd = HomeDir

\* interleaved calls: thread 1's script ran in thread 2's directory, and
\* after both calls the working directory is not the original one
C10_Witness ==
    /\ overlapped
    /\ BothDone
    /\ \E i \in 1..Len(t_execCwd[1]) : t_execCwd[1][i] = Parent(2)
    /\ t_cwd # HomeDir

\* serialized calls: both done, one after the other
C10_SerialRun ==
    /\ ~overlapped
    /\ BothDone
    /\ \A t \in Threads : Len(t_execCwd[t]) = 2

====
